---- MODULE Spec2Model ----
(***************************************************************************)
(* A state-machine model of the camera pipeline: CameraController          *)
(* (js/camera.js), FilterEngine (js/filters.js), CaptureController         *)
(* (js/capture.js), GalleryController (js/gallery.js) and LUTEngine        *)
(* (js/lut-engine.js), of the page that wires them together (js/app.js)    *)
(* and of the service worker that caches the page (service-worker.js).     *)
(*                                                                         *)
(* Scheduling is the browser's single thread: every synchronous handler    *)
(* is one action, and every await / callback boundary splits a handler     *)
(* into the action before it and the action that resumes it.               *)
(***************************************************************************)
EXTENDS Integers, Sequences, FiniteSets, TLC

(* ------------------------------ bounds --------------------------------- *)

\* start() invocations on one CameraController (each may acquire one stream)
MaxStarts == 2
\* tracks carried by one acquired MediaStream
MaxTracks == 2
\* applyConstraints() calls in flight at once
MaxPending == 1
\* largest width / height of the video source and of the canvas
MaxDim == 2
\* distinct frames the video source delivers
MaxFrames == 2
\* capture() calls whose encoding is in flight at once
MaxCaptures == 1
\* values Date.now() can return
MaxClock == 1
\* URL.createObjectURL calls over the life of the page
MaxUrls == 3
\* loadFromImage calls whose image has neither loaded nor failed yet
MaxLoads == 2
\* shutter clicks over the life of the page
MaxShots == 1

VARIABLES
    \* CameraController fields (camera.js 21-29)
    stream, videoTrack, isRunning, statusText,
    \* the <video> element the controller and the filter engine share
    srcObject, readyState, videoWidth, videoHeight, frame,
    \* loadedmetadata listeners registered by _waitForVideoReady
    listeners,
    \* one record per start() invocation: where its async body stands
    calls,
    \* the platform's streams: tracks[s][i] is "live" or "ended"
    tracks,
    \* what the camera hardware / browser supports
    device,
    \* the camera's current settings (every track of the one camera reports
    \* them), and the applyConstraints calls in flight
    expSetting, focusSetting, pendingApply,
    \* start() calls that were in flight when some stop() ran
    interrupted,
    \* FilterEngine fields (filters.js 19-29); rafId 0 stands for null
    exposureEV, activeFilter, running, rafId,
    \* the host's list of animation-frame callbacks not yet run or cancelled
    rafPending,
    \* the canvas: its size and its bitmap, a row-major sequence of pixels
    canvasW, canvasH, surface,
    \* toBlob encodings in flight
    encoding,
    \* GalleryController.items, the object URLs minted so far (a count) and
    \* those the platform's blob URL store still resolves
    items, minted, blobUrls,
    \* the array the last getAll() returned, as its caller holds it
    snapshot,
    \* LUTEngine fields (part_000 20-21) and the image loads in flight
    lut, lutSize, lutLoads,
    \* app.js: the handler of the page that is running or ran last, the
    \* start() calls startCamera() is awaiting, whether the permission overlay
    \* is shown, whether the UI's listeners are bound, document.hidden
    task, awaiting, overlay, uiLive, hidden,
    \* the service worker: its lifecycle state, the fetches of addAll() in
    \* flight, the entries of its static cache, the names of the caches that
    \* exist, and the assets the server does not have
    swState, swPending, swCached, cacheKeys, missing,
    \* the handler that ran last, with its outcome
    lastOp

camVars == <<stream, videoTrack, isRunning, statusText, listeners, calls,
             tracks, device, expSetting, focusSetting, pendingApply,
             interrupted>>
videoVars == <<srcObject, readyState, videoWidth, videoHeight, frame>>

engineVars == <<exposureEV, activeFilter, running, rafId, rafPending>>
canvasVars == <<canvasW, canvasH, surface>>
galleryVars == <<items, minted, blobUrls, snapshot>>
lutVars == <<lut, lutSize, lutLoads>>
appVars == <<task, awaiting, overlay, uiLive, hidden>>
workerVars == <<swState, swPending, swCached, cacheKeys, missing>>
\* what the controllers never touch
shellVars == <<appVars, workerVars>>

vars == <<camVars, videoVars, engineVars, canvasVars, encoding, galleryVars,
          lutVars, shellVars, lastOp>>

(* ------------------------- small helpers ------------------------------- *)

\* the record kept in lastOp: the handler, the start() call or the stream it
\* worked on (0 for none), its outcome, and a set-valued argument ({} for none)
OpWith(name, c, res, arg) == [op |-> name, call |-> c, res |-> res, arg |-> arg]
Op(name, c, res) == OpWith(name, c, res, {})

Min(a, b) == IF a < b THEN a ELSE b
Max(a, b) == IF a > b THEN a ELSE b

\* null for this.stream / this.videoTrack / video.srcObject
NoStream == 0

StreamIds == 1..MaxStarts
Dims == 1..MaxDim
Frames == 1..MaxFrames

\* HTMLMediaElement.readyState values the code distinguishes
HAVE_NOTHING == 0
HAVE_METADATA == 1
HAVE_CURRENT_DATA == 2

\* errors navigator.mediaDevices.getUserMedia rejects with
GumErrors == {"NotAllowedError", "NotFoundError", "NotReadableError"}

(* --------------------------- the device -------------------------------- *)

\* What MediaStreamTrack reports on this browser / camera.  getCapabilities
\* and getSettings are optional methods (camera.js 93-94 calls them with ?.).
\* width, height: the intrinsic size of the frames the camera delivers.
Devices ==
    { [getCapabilities |-> FALSE, getSettings |-> TRUE,  exposure |-> FALSE,
       focusMode |-> "none", focusDistance |-> FALSE,
       width |-> 1, height |-> 1],
      [getCapabilities |-> TRUE,  getSettings |-> TRUE,  exposure |-> FALSE,
       focusMode |-> "auto", focusDistance |-> TRUE,
       width |-> MaxDim, height |-> 1],
      [getCapabilities |-> TRUE,  getSettings |-> TRUE,  exposure |-> TRUE,
       focusMode |-> "manual", focusDistance |-> TRUE,
       width |-> MaxDim, height |-> MaxDim],
      [getCapabilities |-> TRUE,  getSettings |-> FALSE, exposure |-> TRUE,
       focusMode |-> "manual", focusDistance |-> FALSE,
       width |-> 1, height |-> MaxDim] }

\* capabilities.exposureCompensation and capabilities.focusDistance ranges
ExposureRange == [min |-> -1, max |-> 1]
FocusRange == [min |-> 1, max |-> 3]

\* values the UI sliders hand to setExposure / setFocus
EvInputs == {-100, -1, 0, 1, 10}
FocusInputs == {0, 1}

(* ------------------------------ Init ----------------------------------- *)

InitCamera(devs) ==
    /\ stream = NoStream
    /\ videoTrack = NoStream
    /\ isRunning = FALSE
    /\ statusText = ""
    /\ listeners = {}
    /\ calls = [c \in StreamIds |-> "new"]
    /\ tracks = [s \in StreamIds |-> <<>>]
    /\ device \in devs
    /\ expSetting = 0
    /\ focusSetting = FocusRange.min
    /\ pendingApply = {}
    /\ interrupted = {}

InitVideo ==
    /\ srcObject = NoStream
    /\ readyState = HAVE_NOTHING
    /\ videoWidth = 0
    /\ videoHeight = 0
    /\ frame = 0

\* a canvas bitmap of w x h transparent black pixels
Blank(w, h) == [k \in 1..(w * h) |-> <<0, 0, 0, 0>>]

\* the sizes the page may give the canvas element before any resize()
CanvasSizes == {<<0, 0>>, <<1, 1>>, <<MaxDim, 1>>}

InitEngine(evs) ==
    /\ exposureEV \in evs
    /\ activeFilter = "none"
    /\ running = FALSE
    /\ rafId = 0
    /\ rafPending = {}

\* the size of a canvas element the page gives no size (300 x 150 in HTML)
DefaultCanvas == <<MaxDim, 1>>

InitCanvas(sizes) ==
    /\ \E sz \in sizes :
          /\ canvasW = sz[1]
          /\ canvasH = sz[2]
          /\ surface = Blank(sz[1], sz[2])
    /\ encoding = {}

\* the gallery after its constructor, before any object URL exists
InitGallery ==
    /\ items = <<>>
    /\ minted = 0
    /\ blobUrls = {}
    /\ snapshot = [taken |-> FALSE, shared |-> FALSE, list |-> <<>>]

\* null: no table buffer
NoLut == [loaded |-> FALSE, cube |-> 0]

\* the LUT engine after its constructor
InitLut ==
    /\ lut = NoLut
    /\ lutSize = 0
    /\ lutLoads = {}

\* the page once DOMContentLoaded has constructed the controllers and
\* bound the UI (app.js 24-90), before the startCamera() of the boot
InitApp ==
    /\ task = "load"
    /\ awaiting = {}
    /\ overlay = FALSE
    /\ uiLive = TRUE
    /\ hidden = FALSE

\* a service worker script that has been fetched and parsed, on a server
\* that lacks the assets of one of the sets in missingSets
InitWorker(missingSets) ==
    /\ swState = "parsed"
    /\ swPending = {}
    /\ swCached = {}
    /\ cacheKeys = {}
    /\ missing \in missingSets

\* the state once app.js has constructed the controllers, for a camera
\* among devs and a canvas of one of the given sizes; evs is {0}, or the
\* exposure values the slider was left at before the behaviour begins
InitPage(devs, sizes, evs) ==
    /\ InitCamera(devs)
    /\ InitGallery
    /\ InitLut
    /\ InitVideo
    /\ InitEngine(evs)
    /\ InitCanvas(sizes)
    /\ InitApp
    /\ lastOp = Op("init", 0, "none")

\* the page on a server that has every asset
InitWith(devs, sizes, evs) ==
    /\ InitPage(devs, sizes, evs)
    /\ InitWorker({{}})

Init == InitWith(Devices, CanvasSizes, {0})

(* ====================== CameraController =============================== *)

InFlight(c) == calls[c] \in {"gum", "wait"}
Settled(c) == calls[c] \in {"resolved", "rejected"}
NextCall == Cardinality({c \in StreamIds : calls[c] # "new"}) + 1

\* a stream some of whose tracks have never had stop() called on them
Unreleased(s) == \E i \in 1..Len(tracks[s]) : tracks[s][i] = "live"

\* _setStatus: statusEl.textContent = text
SetStatus(text) == statusText' = text

\* _handleError: classify the error into the status line
HandleError(name) ==
    statusText' = IF name = "NotAllowedError" THEN "Permission denied"
                  ELSE IF name = "NotFoundError" THEN "No camera found"
                  ELSE "Camera error"

\* start(), up to its first await: the getUserMedia request is issued
\* unless the session is already running.
Start ==
    LET c == NextCall IN
    /\ c <= MaxStarts
    /\ IF isRunning
          THEN /\ calls' = [calls EXCEPT ![c] = "resolved"]
               /\ UNCHANGED statusText
               /\ lastOp' = Op("start", c, "noop")
          ELSE /\ calls' = [calls EXCEPT ![c] = "gum"]
               /\ SetStatus("Requesting camera")
               /\ lastOp' = Op("start", c, "requested")
    /\ UNCHANGED <<stream, videoTrack, isRunning, listeners, tracks, device,
                   expSetting, focusSetting, pendingApply, interrupted>>
    /\ UNCHANGED <<videoVars, engineVars, canvasVars, encoding, galleryVars, lutVars, shellVars>>

\* video.srcObject = s runs the media element load algorithm, which puts
\* readyState back to HAVE_NOTHING and drops the old source's dimensions.
ReadyStateAfterBind == HAVE_NOTHING

\* lines 51-54 of start(), run once the readiness wait is over: they read
\* this.stream as it is now.
TrackAfterReady == stream
RunningAfterReady == TRUE

\* getUserMedia resolved for call c with a new stream of live tracks:
\* this.stream = it; video.srcObject = it; then _waitForVideoReady(), which
\* resolves at once when readyState >= 2 and otherwise registers a
\* loadedmetadata listener.
GumResolve(c) ==
    /\ calls[c] = "gum"
    /\ stream' = c
    /\ tracks' = [tracks EXCEPT ![c] = [i \in 1..MaxTracks |-> "live"]]
    /\ srcObject' = c
    /\ readyState' = ReadyStateAfterBind
    /\ videoWidth' = 0
    /\ videoHeight' = 0
    /\ frame' = 0
    /\ IF ReadyStateAfterBind >= HAVE_CURRENT_DATA
          THEN /\ videoTrack' = c
               /\ isRunning' = RunningAfterReady
               /\ calls' = [calls EXCEPT ![c] = "resolved"]
               /\ SetStatus("Camera ready")
               /\ UNCHANGED listeners
          ELSE /\ listeners' = listeners \cup {c}
               /\ calls' = [calls EXCEPT ![c] = "wait"]
               /\ UNCHANGED <<videoTrack, isRunning, statusText>>
    /\ lastOp' = Op("gumResolve", c, "bound")
    /\ UNCHANGED <<device, expSetting, focusSetting, pendingApply, interrupted>>
    /\ UNCHANGED <<engineVars, canvasVars, encoding, galleryVars, lutVars, shellVars>>

\* throw error (camera.js 57): what the promise of start() rejects with
Rethrown(e) == e

\* getUserMedia rejected for call c: the catch block classifies the error
\* and rethrows it.
GumReject(c, e) ==
    /\ calls[c] = "gum"
    /\ HandleError(e)
    /\ calls' = [calls EXCEPT ![c] = "rejected"]
    /\ lastOp' = Op("gumReject", c, Rethrown(e))
    /\ UNCHANGED <<stream, videoTrack, isRunning, listeners, tracks, device,
                   expSetting, focusSetting, pendingApply, interrupted>>
    /\ UNCHANGED <<videoVars, engineVars, canvasVars, encoding, galleryVars, lutVars, shellVars>>

\* The element has read the bound stream's first frame header: readyState
\* becomes HAVE_METADATA, the intrinsic dimensions are known, loadedmetadata
\* fires.  Every registered onLoaded runs (removing itself and resolving its
\* promise) and every start() awaiting one resumes at line 51 before any
\* other task runs.
LoadedMetadata ==
    /\ srcObject # NoStream
    /\ readyState = HAVE_NOTHING
    /\ readyState' = HAVE_METADATA
    /\ videoWidth' = device.width
    /\ videoHeight' = device.height
    /\ listeners' = {}
    /\ IF listeners = {}
          THEN UNCHANGED <<videoTrack, isRunning, statusText, calls>>
          ELSE IF stream = NoStream
          THEN \* this.stream.getVideoTracks() throws a TypeError
               /\ HandleError("TypeError")
               /\ calls' = [c \in StreamIds |->
                              IF c \in listeners THEN "rejected"
                                                   ELSE calls[c]]
               /\ UNCHANGED <<videoTrack, isRunning>>
          ELSE /\ videoTrack' = TrackAfterReady
               /\ isRunning' = RunningAfterReady
               /\ SetStatus("Camera ready")
               /\ calls' = [c \in StreamIds |->
                              IF c \in listeners THEN "resolved"
                                                   ELSE calls[c]]
    /\ lastOp' = Op("loadedmetadata", 0, "fired")
    /\ UNCHANGED <<stream, srcObject, frame, tracks, device, expSetting,
                   focusSetting, pendingApply, interrupted>>
    /\ UNCHANGED <<engineVars, canvasVars, encoding, galleryVars, lutVars, shellVars>>

\* The element has decoded a frame of the bound stream: readyState reaches
\* HAVE_CURRENT_DATA and the element shows frame f.
CanPlay(f) ==
    /\ srcObject # NoStream
    /\ readyState = HAVE_METADATA
    /\ readyState' = HAVE_CURRENT_DATA
    /\ frame' = f
    /\ lastOp' = Op("canplay", 0, "fired")
    /\ UNCHANGED <<srcObject, videoWidth, videoHeight>>
    /\ UNCHANGED <<camVars, engineVars, canvasVars, encoding, galleryVars, lutVars, shellVars>>

\* The element moves on to another frame of the stream.
NewFrame(f) ==
    /\ srcObject # NoStream
    /\ readyState = HAVE_CURRENT_DATA
    /\ f # frame
    /\ frame' = f
    /\ lastOp' = Op("newFrame", 0, "fired")
    /\ UNCHANGED <<srcObject, readyState, videoWidth, videoHeight>>
    /\ UNCHANGED <<camVars, engineVars, canvasVars, encoding, galleryVars, lutVars, shellVars>>

\* what the catch block around track.stop() does when track i throws:
\* nothing, and forEach goes on with the next track
RECURSIVE StopFrom(_, _, _)
OnTrackStopThrow_propagate(trs, i, throwers) == [tracks |-> trs, raised |-> TRUE]
OnTrackStopThrow(trs, i, throwers) == StopFrom(trs, i + 1, throwers)

\* stream.getTracks().forEach(track => { try { track.stop() } catch {} })
\* from track i on.  stop() ends the track; `throwers' are the tracks whose
\* stop() call then raises.  The result says whether an exception left the
\* loop.
StopFrom(trs, i, throwers) ==
    IF i > Len(trs)
       THEN [tracks |-> trs, raised |-> FALSE]
       ELSE LET ended == [trs EXCEPT ![i] = "ended"] IN
            IF i \in throwers
               THEN OnTrackStopThrow(ended, i, throwers)
               ELSE StopFrom(ended, i + 1, throwers)

\* a stop() that leaves the stream bound to the video element
SrcObjectAfterStop_kept == srcObject

\* this.video.srcObject = null (camera.js 78): the element drops its source
\* and, with it, every event still queued for that source
SrcObjectAfterStop == NoStream

\* the fields stop() writes after the loop (camera.js 79-81)
TrackAfterStop_kept == videoTrack
TrackAfterStop == NoStream
RunningAfterStop == FALSE

\* stop(): a no-op without a stream; otherwise every track is stopped, the
\* video element is unbound and the session fields are cleared.
Stop(throwers) ==
    /\ interrupted' = interrupted \cup {c \in StreamIds : InFlight(c)}
    /\ IF stream = NoStream
          THEN /\ lastOp' = Op("stop", 0, "returned")
               /\ UNCHANGED <<stream, videoTrack, isRunning, statusText,
                              tracks>>
               /\ UNCHANGED videoVars
          ELSE LET r == StopFrom(tracks[stream], 1, throwers) IN
               /\ tracks' = [tracks EXCEPT ![stream] = r.tracks]
               /\ IF r.raised
                     THEN /\ lastOp' = Op("stop", stream, "raised")
                          /\ UNCHANGED <<stream, videoTrack, isRunning,
                                         statusText>>
                          /\ UNCHANGED videoVars
                     ELSE /\ srcObject' = SrcObjectAfterStop
                          /\ readyState' = HAVE_NOTHING
                          /\ videoWidth' = 0
                          /\ videoHeight' = 0
                          /\ frame' = 0
                          /\ stream' = NoStream
                          /\ videoTrack' = TrackAfterStop
                          /\ isRunning' = RunningAfterStop
                          /\ SetStatus("Camera stopped")
                          /\ lastOp' = OpWith("stop", stream, "returned",
                                              throwers \cap DOMAIN tracks[stream])
    /\ UNCHANGED <<listeners, calls, device, expSetting, focusSetting,
                   pendingApply>>
    /\ UNCHANGED <<engineVars, canvasVars, encoding, galleryVars, lutVars, shellVars>>

(* --------------------- best-effort camera controls --------------------- *)

\* a setExposure that sends the value as it came
ClampExposure_none(ev) == ev

\* Math.min(range.max, Math.max(range.min, ev))   (camera.js 100-103)
ClampExposure(ev) == Min(ExposureRange.max, Max(ExposureRange.min, ev))

\* focusDistance.min + normalizedValue * (max - min)   (camera.js 135-137)
FocusValue(n) == FocusRange.min + n * (FocusRange.max - FocusRange.min)

\* an async control that returns before any await: nothing changes
ControlReturns(name, res) ==
    /\ lastOp' = Op(name, 0, res)
    /\ UNCHANGED <<camVars, videoVars, engineVars, canvasVars, encoding, galleryVars, lutVars, shellVars>>

\* an async control called with input that reaches its await on
\* applyConstraints
ControlApplies(name, input, field, value) ==
    /\ Cardinality(pendingApply) < MaxPending
    /\ pendingApply' = pendingApply \cup
                         {[field |-> field, value |-> value]}
    /\ lastOp' = OpWith(name, 0, "applying", input)
    /\ UNCHANGED <<stream, videoTrack, isRunning, statusText, listeners, calls,
                   tracks, device, expSetting, focusSetting, interrupted>>
    /\ UNCHANGED <<videoVars, engineVars, canvasVars, encoding, galleryVars, lutVars, shellVars>>

\* setExposure(ev), up to its await.  settings is undefined when the track
\* has no getSettings, and reading settings.exposureCompensation then throws,
\* which rejects the promise setExposure returned.
SetExposure(ev) ==
    IF videoTrack = NoStream
       THEN ControlReturns("setExposure", "noop")
    ELSE IF ~device.getCapabilities \/ ~device.exposure
       THEN ControlReturns("setExposure", "noop")
    ELSE IF ~device.getSettings
       THEN ControlReturns("setExposure", "rejected")
    ELSE IF expSetting = ClampExposure(ev)
       THEN ControlReturns("setExposure", "noop")
    ELSE ControlApplies("setExposure", ev, "exposureCompensation",
                        ClampExposure(ev))

\* setFocus(normalizedValue), up to its await
SetFocus(n) ==
    IF videoTrack = NoStream
       THEN ControlReturns("setFocus", "noop")
    ELSE IF ~device.getCapabilities \/ device.focusMode = "none"
       THEN ControlReturns("setFocus", "noop")
    ELSE IF device.focusMode # "manual"
       THEN ControlReturns("setFocus", "noop")
    ELSE IF ~device.focusDistance
       THEN ControlReturns("setFocus", "noop")
    ELSE ControlApplies("setFocus", n, "focusDistance", FocusValue(n))

\* applyConstraints settles: on success the camera takes the value; a
\* rejection is caught and dropped (camera.js 113-115, 148-150).  Which of
\* the two happens is the platform's choice.
ApplyDone(p, ok) ==
    /\ p \in pendingApply
    /\ pendingApply' = pendingApply \ {p}
    /\ IF ok
          THEN /\ expSetting' = IF p.field = "exposureCompensation"
                                   THEN p.value ELSE expSetting
               /\ focusSetting' = IF p.field = "focusDistance"
                                     THEN p.value ELSE focusSetting
               /\ lastOp' = Op("applyDone", 0, "applied")
          ELSE /\ UNCHANGED <<expSetting, focusSetting>>
               /\ lastOp' = Op("applyDone", 0, "swallowed")
    /\ UNCHANGED <<stream, videoTrack, isRunning, statusText, listeners, calls,
                   tracks, device, interrupted>>
    /\ UNCHANGED <<videoVars, engineVars, canvasVars, encoding, galleryVars, lutVars, shellVars>>

(* ------------------------- camera specification ------------------------ *)

NextCamera ==
    \/ Start
    \/ \E c \in StreamIds : GumResolve(c)
    \/ \E c \in StreamIds, e \in GumErrors : GumReject(c, e)
    \/ LoadedMetadata
    \/ \E th \in SUBSET (1..MaxTracks) : Stop(th)
    \/ \E ev \in EvInputs : SetExposure(ev)
    \/ \E n \in FocusInputs : SetFocus(n)
    \/ \E p \in pendingApply, ok \in BOOLEAN : ApplyDone(p, ok)

\* the camera session on its own: the canvas plays no part in it
SpecCamera == InitWith(Devices, {DefaultCanvas}, {0}) /\ [][NextCamera]_vars

(* ========================= FilterEngine ================================ *)

\* pixel k (row-major, from 1) of frame f of the stream: opaque, and different
\* for different frames and positions.  The first frame begins with a pixel
\* whose luma lies halfway between two integers, the second with a gray
\* one.
FramePixel(f, k) ==
    IF k = 1 /\ f = 1 THEN << 0, 14, 76, 255 >>
    ELSE IF k = 1 /\ f = 2 THEN << 77, 77, 77, 255 >>
    ELSE << (40 * f + 90 * k) % 256, (200 + 7 * f + 60 * k) % 256,
            (120 * f + 33 * k) % 256, 255 >>

\* storing the number num / den into a Uint8ClampedArray: round to the
\* nearest integer, ties to even, then clamp to 0..255
ToUint8Clamped(num, den) ==
    LET q == num \div den
        r == num % den
        n == IF 2 * r < den THEN q
             ELSE IF 2 * r > den THEN q + 1
             ELSE IF q % 2 = 0 THEN q ELSE q + 1
    IN  Max(0, Min(255, n))

\* ctx.drawImage(video, 0, 0, w, h): the current frame scaled from the
\* video's intrinsic size to w x h (nearest source pixel; a plain copy when
\* the sizes agree)
DrawImage(w, h) ==
    [k \in 1..(w * h) |->
        LET x == (k - 1) % w
            y == (k - 1) \div w
            sx == (x * videoWidth) \div w
            sy == (y * videoHeight) \div h
        IN  FramePixel(frame, sy * videoWidth + sx + 1)]

\* Math.pow(2, ev) in hundredths, for whole ev
Gain100(ev) == IF ev >= 0 THEN 100 * (2 ^ ev) ELSE 100 \div (2 ^ (0 - ev))

\* the alpha of fillStyle rgba(255,255,255,(gain - 1) * 0.15) in 1/10000;
\* the colour parser clamps alpha to 0..1
OverlayAlpha(ev) == Max(0, Min(10000, (Gain100(ev) - 100) * 15))

\* fillRect(0, 0, w, h) with that style, source-over, on opaque pixels
Overlay(px, ev) ==
    LET a == OverlayAlpha(ev)
        mix(c) == ToUint8Clamped(c * (10000 - a) + 255 * a, 10000)
    IN  [k \in DOMAIN px |->
            << mix(px[k][1]), mix(px[k][2]), mix(px[k][3]), px[k][4] >>]

\* JavaScript numbers are IEEE-754 doubles.  The doubles of _grayscale are
\* kept as records x standing for x.n / 10000 + x.dev / (10000 * 2^56): n
\* is the value the decimal coefficients would give exactly, dev what the
\* roundings so far have added.  All of them are 0 or at least 2^-4, so
\* each is a multiple of 2^-56 and dev is an integer.

\* (n * 2^k) % m, five doublings at a time while that many are left
RECURSIVE Pow2Mod(_, _, _)
Pow2Mod(n, k, m) ==
    IF n >= m THEN Pow2Mod(n % m, k, m)
    ELSE IF k = 0 THEN n
    ELSE IF k >= 5 THEN Pow2Mod((32 * n) % m, k - 5, m)
    ELSE Pow2Mod((2 * n) % m, k - 1, m)

\* the bits below the 53-bit significand of the double nearest to x # 0,
\* counted in a multiple of 2^-56: with 2^(e - 1) <= x < 2^e they are e + 3
DroppedBits(x) ==
    LET j == CHOOSE i \in 0..11 :
                 10000 * 2^i <= 16 * x.n /\ 16 * x.n < 10000 * 2^(i + 1)
    IN  IF 16 * x.n = 10000 * 2^j /\ x.dev < 0 THEN j - 1 ELSE j

\* rounding of the exact result x of an operation to a double: to the
\* nearest multiple of 2^DroppedBits(x) * 2^-56, ties to the even one
RoundDouble(x) ==
    IF x.n = 0 THEN x
    ELSE LET D == 10000 * 2^DroppedBits(x)
             R2 == (Pow2Mod(x.n, 56, 2 * D) + x.dev) % (2 * D)
             R == R2 % D
             down == [n |-> x.n, dev |-> x.dev - R]
             up == [n |-> x.n, dev |-> x.dev + D - R]
         IN  IF 2 * R < D THEN down
             ELSE IF 2 * R > D THEN up
             ELSE IF R2 \div D = 1 THEN up ELSE down

\* the literal a / 10000 (0.2126, 0.7152, 0.0722) as a double
Literal(a) == RoundDouble([n |-> a, dev |-> 0])

\* literal * c for a byte c, and x + y
Times(a, c) == RoundDouble([n |-> a * c, dev |-> Literal(a).dev * c])
Plus(x, y) == RoundDouble([n |-> x.n + y.n, dev |-> x.dev + y.dev])

\* storing the double x into a Uint8ClampedArray: the nearest integer, ties
\* to even, clamped to 0..255
DoubleToUint8Clamped(x) ==
    LET q == x.n \div 10000
        r == x.n % 10000
        v == IF r < 5000 THEN q
             ELSE IF r > 5000 THEN q + 1
             ELSE IF x.dev < 0 THEN q
             ELSE IF x.dev > 0 THEN q + 1
             ELSE IF q % 2 = 0 THEN q ELSE q + 1
    IN  Max(0, Min(255, v))

\* a grayscale that takes the mean of the three channels
Grayscale_mean(px) ==
    [k \in DOMAIN px |->
        LET l == ToUint8Clamped(px[k][1] + px[k][2] + px[k][3], 3)
        IN  << l, l, l, px[k][4] >>]

\* _grayscale (filters.js 121-134): l = 0.2126 * r + 0.7152 * g + 0.0722 * b
\* in doubles, left to right, stored into the three colour bytes
Grayscale(px) ==
    [k \in DOMAIN px |->
        LET l == DoubleToUint8Clamped(
                    Plus(Plus(Times(2126, px[k][1]), Times(7152, px[k][2])),
                         Times(722, px[k][3])))
        IN  << l, l, l, px[k][4] >>]

\* a warm filter with the two factors exchanged
Warm_swapped(px) ==
    [k \in DOMAIN px |->
        << ToUint8Clamped(Max(0, px[k][1] * 95), 100), px[k][2],
           ToUint8Clamped(Min(255 * 100, px[k][3] * 105), 100), px[k][4] >>]

\* _warm (filters.js 136-146): Math.min(255, r * 1.05) and
\* Math.max(0, b * 0.95) stored into the Uint8ClampedArray.  For each of the
\* 256 byte values the double product rounds to the same byte as the exact
\* product in hundredths, so the products are kept exact.
Warm(px) ==
    [k \in DOMAIN px |->
        << ToUint8Clamped(Min(255 * 100, px[k][1] * 105), 100), px[k][2],
           ToUint8Clamped(Max(0, px[k][3] * 95), 100), px[k][4] >>]

\* _cool (filters.js 148-158)
Cool(px) ==
    [k \in DOMAIN px |->
        << ToUint8Clamped(Max(0, px[k][1] * 95), 100), px[k][2],
           ToUint8Clamped(Min(255 * 100, px[k][3] * 105), 100), px[k][4] >>]

\* a switch whose default branch runs the grayscale pass
ApplyFilter_default(px, name) ==
    IF name \in {"warm", "cool"} THEN px ELSE Grayscale(px)

\* _applyFilter: the switch on activeFilter
ApplyFilter(px, name) ==
    CASE name = "mono" -> Grayscale(px)
      [] name = "warm" -> Warm(px)
      [] name = "cool" -> Cool(px)
      [] OTHER -> px

\* the names setFilter is called with; "sepia" is one the switch does not know
FilterNames == {"none", "mono", "warm", "cool", "sepia"}

\* requestAnimationFrame returns a handle no pending callback and no stored
\* handle carries; the smallest such number stands for the host's counter
FreshRaf(pend) == CHOOSE n \in 1..(Cardinality(pend) + 2) : n \notin pend /\ n # rafId

\* a cancelAnimationFrame that leaves the callback in the host's list
CancelRaf_none(id, pend) == pend

\* cancelAnimationFrame(id)
CancelRaf(id, pend) == pend \ {id}

\* the body of _render() with _running = isRun and the host's callback list
\* pend: reschedule first, then draw unless the video has no current frame
\* or the canvas has no pixels
Render(isRun, pend) ==
    IF ~isRun
       THEN /\ rafPending' = pend
            /\ UNCHANGED <<rafId, surface>>
       ELSE /\ rafId' = FreshRaf(pend)
            /\ rafPending' = pend \cup {FreshRaf(pend)}
            /\ IF readyState < HAVE_CURRENT_DATA \/ canvasW = 0 \/ canvasH = 0
                  THEN UNCHANGED surface
                  ELSE surface' =
                         ApplyFilter(
                            IF exposureEV # 0
                               THEN Overlay(DrawImage(canvasW, canvasH), exposureEV)
                               ELSE DrawImage(canvasW, canvasH),
                            activeFilter)

\* FilterEngine.start()
FeStart ==
    /\ IF running
          THEN /\ UNCHANGED <<running, rafId, rafPending, surface>>
               /\ lastOp' = Op("feStart", 0, "noop")
          ELSE /\ running' = TRUE
               /\ Render(TRUE, rafPending)
               /\ lastOp' = Op("feStart", 0, "started")
    /\ UNCHANGED <<exposureEV, activeFilter, canvasW, canvasH, encoding, galleryVars, lutVars, shellVars>>
    /\ UNCHANGED <<camVars, videoVars>>

\* FilterEngine.stop()
FeStop ==
    /\ running' = FALSE
    /\ IF rafId # 0
          THEN /\ rafPending' = CancelRaf(rafId, rafPending)
               /\ rafId' = 0
          ELSE UNCHANGED <<rafId, rafPending>>
    /\ lastOp' = Op("feStop", 0, IF running THEN "stopped" ELSE "noop")
    /\ UNCHANGED <<exposureEV, activeFilter, canvasVars, encoding, galleryVars, lutVars, shellVars>>
    /\ UNCHANGED <<camVars, videoVars>>

\* FilterEngine.resize(): assigning canvas.width / height also clears the
\* bitmap
FeResize ==
    /\ IF videoWidth = 0 \/ videoHeight = 0
          THEN /\ UNCHANGED canvasVars
               /\ lastOp' = Op("resize", 0, "noop")
          ELSE /\ canvasW' = videoWidth
               /\ canvasH' = videoHeight
               /\ surface' = Blank(videoWidth, videoHeight)
               /\ lastOp' = Op("resize", 0, "resized")
    /\ UNCHANGED <<engineVars, encoding, galleryVars, lutVars, shellVars>>
    /\ UNCHANGED <<camVars, videoVars>>

\* a clamp without the lower limit
ClampEV_upperOnly(ev) == Min(2, ev)

\* Math.max(-2, Math.min(2, ev))
ClampEV(ev) == Max(-2, Min(2, ev))

\* FilterEngine.setExposure(ev)
FeSetExposure(ev) ==
    /\ exposureEV' = ClampEV(ev)
    /\ lastOp' = OpWith("feSetExposure", 0, "set", ev)
    /\ UNCHANGED <<activeFilter, running, rafId, rafPending, canvasVars, encoding, galleryVars, lutVars, shellVars>>
    /\ UNCHANGED <<camVars, videoVars>>

\* FilterEngine.setFilter(name)
SetFilter(name) ==
    /\ activeFilter' = name
    /\ lastOp' = Op("setFilter", 0, "set")
    /\ UNCHANGED <<exposureEV, running, rafId, rafPending, canvasVars, encoding, galleryVars, lutVars, shellVars>>
    /\ UNCHANGED <<camVars, videoVars>>

\* the host runs the animation-frame callback with handle id: _render()
RenderStep(id) ==
    /\ id \in rafPending
    /\ Render(running, rafPending \ {id})
    /\ lastOp' = Op("render", 0, "ran")
    /\ UNCHANGED <<exposureEV, activeFilter, running, canvasW, canvasH, encoding, galleryVars, lutVars, shellVars>>
    /\ UNCHANGED <<camVars, videoVars>>

\* the statements of _render() after the reschedule that can throw: the
\* drawImage call, the fillRect of the overlay, the filter pass
ThrowPoints == {"draw", "overlay", "filter"}

\* a _render() that requests its successor after the filter pass: a step
\* that throws has requested none
PendingAfterThrow_late(pend) == pend

\* the host's callback list after a step that threw: the successor was
\* requested (filters.js 77) before the drawing began
PendingAfterThrow(pend) == pend \cup {FreshRaf(pend)}

\* the host runs the animation-frame callback with handle id, and the
\* statement `at' of _render() throws: what was drawn before it stays on the
\* canvas, and the exception leaves the callback
RenderThrows(id, at) ==
    /\ id \in rafPending
    /\ running
    /\ readyState >= HAVE_CURRENT_DATA
    /\ canvasW # 0
    /\ canvasH # 0
    /\ at = "overlay" => exposureEV # 0
    /\ at = "filter" => activeFilter \in {"mono", "warm", "cool"}
    /\ rafId' = FreshRaf(rafPending \ {id})
    /\ rafPending' = PendingAfterThrow(rafPending \ {id})
    /\ surface' = IF at = "draw" THEN surface
                   ELSE IF at = "overlay" \/ exposureEV = 0
                           THEN DrawImage(canvasW, canvasH)
                   ELSE Overlay(DrawImage(canvasW, canvasH), exposureEV)
    /\ lastOp' = OpWith("renderThrow", 0, "threw", at)
    /\ UNCHANGED <<exposureEV, activeFilter, running, canvasW, canvasH, encoding, galleryVars, lutVars, shellVars>>
    /\ UNCHANGED <<camVars, videoVars>>

(* ======================= CaptureController ============================= *)

\* the canvas bitmap as it is now
Bitmap == [w |-> canvasW, h |-> canvasH, px |-> surface]

\* a toBlob that serialises the canvas as it is when the encoder runs
EncodedBitmap_live(job) == Bitmap

\* what canvas.toBlob serialises for a job: the copy of the bitmap it took
\* when it was called
EncodedBitmap(job) == job.bitmap

\* the image file the encoder makes of a bitmap
EncodeBitmap(bm, type, quality) ==
    [type |-> type, quality |-> quality, w |-> bm.w, h |-> bm.h, data |-> bm.px]

\* Date.now()
Clock == 1..MaxClock

\* a guard that looks at the width only
CanvasNotReady_widthOnly(w, h) == w = 0

\* !this.canvas.width || !this.canvas.height
CanvasNotReady(w, h) == w = 0 \/ h = 0

\* the toBlob call this one is: the smallest number no encoding in flight
\* carries
FreshJob == CHOOSE n \in 1..(Cardinality(encoding) + 1) :
               \A job \in encoding : job.id # n

\* capture(), the executor of its promise: reject for a canvas without
\* pixels, otherwise call toBlob, which copies the bitmap and encodes later.
\* shown records what the surface held at the call.
Capture ==
    /\ IF CanvasNotReady(canvasW, canvasH)
          THEN /\ UNCHANGED encoding
               /\ lastOp' = OpWith("capture", 0, "rejected",
                                   "Canvas not ready for capture")
          ELSE /\ Cardinality(encoding) < MaxCaptures
               /\ encoding' = encoding \cup {[id |-> FreshJob,
                                               bitmap |-> Bitmap,
                                               shown |-> Bitmap]}
               /\ lastOp' = Op("capture", FreshJob, "encoding")
    /\ UNCHANGED <<engineVars, canvasVars, galleryVars, lutVars, shellVars>>
    /\ UNCHANGED <<camVars, videoVars>>

\* the null toBlob passes to its callback when it could not encode
NoBlob == [type |-> "null"]

\* a callback without the return after reject
SettleCalls_fallthrough(ok) ==
    IF ~ok THEN <<"reject", "resolve">> ELSE <<"resolve">>

\* the calls the toBlob callback makes on the promise, in order: reject and
\* return for a null blob, resolve otherwise
SettleCalls(ok) == IF ~ok THEN <<"reject">> ELSE <<"resolve">>

\* the toBlob callback of a job runs, with a blob or (ok false) with null;
\* the first call on the promise settles it.  lastOp.call is the job,
\* lastOp.arg the value the promise settled with and the calls made.
EncodeDone(job, ok, t) ==
    /\ job \in encoding
    /\ encoding' = encoding \ {job}
    /\ IF SettleCalls(ok)[1] = "reject"
          THEN lastOp' = OpWith("encodeDone", job.id, "rejected",
                                [error |-> "Failed to capture image",
                                 calls |-> SettleCalls(ok)])
          ELSE lastOp' = OpWith("encodeDone", job.id, "resolved",
                                [blob |-> IF ok
                                             THEN EncodeBitmap(EncodedBitmap(job),
                                                               "image/jpeg", 92)
                                             ELSE NoBlob,
                                 width |-> canvasW,
                                 height |-> canvasH,
                                 timestamp |-> t,
                                 shown |-> job.shown,
                                 calls |-> SettleCalls(ok)])
    /\ UNCHANGED <<engineVars, canvasVars, galleryVars, lutVars, shellVars>>
    /\ UNCHANGED <<camVars, videoVars>>

(* ------------------------ engine specifications ------------------------ *)

\* the camera session started once, as app.js does at boot
SourceSteps ==
    \/ (NextCall = 1 /\ Start)
    \/ GumResolve(1)
    \/ LoadedMetadata
    \/ \E f \in Frames : CanPlay(f)
    \/ \E f \in Frames : NewFrame(f)

NextFrame ==
    \/ SourceSteps
    \/ FeStart
    \/ FeStop
    \/ FeResize
    \/ \E ev \in EvInputs : FeSetExposure(ev)
    \/ \E name \in FilterNames : SetFilter(name)
    \/ \E id \in rafPending : RenderStep(id)
    \/ \E id \in rafPending, at \in ThrowPoints : RenderThrows(id, at)

\* the frame processor over a camera started once
SpecFrame == Init /\ [][NextFrame]_vars

\* the exposure values and filters in use while stills are taken
ShootingEvs == {0, ClampEV(10)}
ShootingFilters == {"none", "warm"}

NextCapture ==
    \/ SourceSteps
    \/ FeStart
    \/ FeResize
    \/ \E name \in ShootingFilters : SetFilter(name)
    \/ \E id \in rafPending : RenderStep(id)
    \/ Capture
    \/ \E job \in encoding, ok \in BOOLEAN, t \in Clock : EncodeDone(job, ok, t)

\* stills captured from the canvas while the frame processor runs, for the
\* camera with the largest frames, a canvas that starts without pixels
\* (no width, or a width and no height) or at its default size, and the
\* exposure slider left at 0 or at its top
SpecCapture ==
    /\ InitWith({d \in Devices : d.width = MaxDim /\ d.height = MaxDim},
                {<<0, 0>>, <<1, 0>>, DefaultCanvas}, ShootingEvs)
    /\ [][NextCapture]_vars

(* ========================= GalleryController ========================== *)

\* the blobs handed to add(), next to NoBlob for a capture whose blob is
\* null
Blobs == {[type |-> "image/jpeg", data |-> d] : d \in {"A", "B"}}

\* the capture results add() is called with
GalleryCaptures ==
    [blob : Blobs \cup {NoBlob}, width : {MaxDim}, height : {1}, timestamp : Clock]

\* URL.createObjectURL(blob): a URL the store has never handed out
CreateObjectURL == minted + 1

\* a revokeObjectURL that leaves the store as it was
RevokeObjectURL_noop(url, store) == store

\* URL.revokeObjectURL(url): the store forgets the URL; unknown URLs are
\* ignored
RevokeObjectURL(url, store) == store \ {url}

\* what the catch block around revokeObjectURL does when the call for item
\* i throws: nothing, and the loop goes on with the next item
RECURSIVE ClearFrom(_, _, _, _, _)
OnRevokeThrow_propagate(its, i, store, called, throwers) ==
    [store |-> store, called |-> called, raised |-> TRUE]
OnRevokeThrow(its, i, store, called, throwers) ==
    ClearFrom(its, i + 1, store, called, throwers)

\* the for-of loop of clear() from item i on: every item's URL is revoked
\* inside its own try/catch.  `throwers' are the items whose call then
\* raises (the platform gives the call no failing path; the throw is what
\* the catch is there for).  The result holds the store, the URLs the call
\* was made with, and whether an exception left the loop.
ClearFrom(its, i, store, called, throwers) ==
    IF i > Len(its)
       THEN [store |-> store, called |-> called, raised |-> FALSE]
       ELSE LET after == RevokeObjectURL(its[i].url, store)
                seen == Append(called, its[i].url) IN
            IF i \in throwers
               THEN OnRevokeThrow(its, i, after, seen, throwers)
               ELSE ClearFrom(its, i + 1, after, seen, throwers)

\* a clear() that revokes and keeps the entries
ItemsAfterClear_kept == items

\* this.items.length = 0
ItemsAfterClear == <<>>

\* add(capture): createObjectURL throws a TypeError for a blob that is not
\* one, before anything is pushed
Add(capture) ==
    /\ minted < MaxUrls
    /\ IF capture.blob = NoBlob
          THEN /\ UNCHANGED galleryVars
               /\ lastOp' = OpWith("add", 0, "raised", "TypeError")
          ELSE /\ UNCHANGED snapshot
               /\ minted' = minted + 1
               /\ blobUrls' = blobUrls \cup {CreateObjectURL}
               /\ items' = Append(items, [url |-> CreateObjectURL,
                                          blob |-> capture.blob,
                                          width |-> capture.width,
                                          height |-> capture.height,
                                          timestamp |-> capture.timestamp])
               /\ lastOp' = OpWith("add", 0, "returned", items'[Len(items')])
    /\ UNCHANGED <<camVars, videoVars, engineVars, canvasVars, encoding, lutVars, shellVars>>

\* a getAll() that returns this.items itself
SnapshotShared_same == TRUE

\* [...this.items] is a new array: it shares nothing with this.items but
\* the entries
SnapshotShared == FALSE

\* getAll(): a new array of the same entries
GetAll ==
    /\ lastOp' = OpWith("getAll", 0, "returned", items)
    /\ snapshot' = [taken |-> TRUE, shared |-> SnapshotShared, list |-> items]
    /\ UNCHANGED <<items, minted, blobUrls>>
    /\ UNCHANGED <<camVars, videoVars, engineVars, canvasVars, encoding, lutVars, shellVars>>

\* getLatest(): the last entry, or null
GetLatest ==
    /\ lastOp' = IF Len(items) # 0
                    THEN OpWith("getLatest", 0, "returned", items[Len(items)])
                    ELSE OpWith("getLatest", 0, "returned", "null")
    /\ UNCHANGED galleryVars
    /\ UNCHANGED <<camVars, videoVars, engineVars, canvasVars, encoding, lutVars, shellVars>>

\* clear(); lastOp.call keeps the number of entries it found and lastOp.arg
\* the URLs revokeObjectURL was called with, in order, and the calls that
\* threw
Clear(throwers) ==
    LET r == ClearFrom(items, 1, blobUrls, <<>>, throwers) IN
    /\ blobUrls' = r.store
    /\ items' = IF r.raised THEN items ELSE ItemsAfterClear
    /\ UNCHANGED <<minted, snapshot>>
    /\ lastOp' = OpWith("clear", Len(items),
                        IF r.raised THEN "raised" ELSE "returned",
                        [called |-> r.called, threw |-> throwers])
    /\ UNCHANGED <<camVars, videoVars, engineVars, canvasVars, encoding, lutVars, shellVars>>

\* the caller of getAll() removes the last element of the array it got
\* (pop()); an array that is this.items loses it in the gallery too
SnapshotPop ==
    /\ snapshot.taken
    /\ snapshot.list # <<>>
    /\ snapshot' = [snapshot EXCEPT
                      !.list = SubSeq(snapshot.list, 1, Len(snapshot.list) - 1)]
    /\ items' = IF snapshot.shared /\ items # <<>>
                   THEN SubSeq(items, 1, Len(items) - 1)
                   ELSE items
    /\ UNCHANGED <<minted, blobUrls>>
    /\ lastOp' = Op("snapshotPop", 0, "returned")
    /\ UNCHANGED <<camVars, videoVars, engineVars, canvasVars, encoding, lutVars, shellVars>>

NextGallery ==
    \/ \E capture \in GalleryCaptures : Add(capture)
    \/ GetAll
    \/ GetLatest
    \/ SnapshotPop
    \/ \E throwers \in SUBSET DOMAIN items : Clear(throwers)

\* the gallery on its own, fed with capture results
SpecGallery ==
    /\ InitWith({d \in Devices : d.width = MaxDim /\ d.height = MaxDim},
                {DefaultCanvas}, {0})
    /\ [][NextGallery]_vars

(* ============================ LUTEngine ================================ *)

\* the size arguments of loadFromImage: 0, the smallest cube, and a large
\* one; the caller supplies the size, the image does not
LutSizes == {0, 2, 148}

\* the images behind the URLs: an image of cube edge n decodes to a buffer
\* of n * n * n * 4 bytes
LutCubes == {2, 148}

\* byte index (from 0) of the decoded image of any cube
TableByte(index) == ((index \div 4) * 7 + (index % 4) * 3 + 1) % 256

\* what indexing past the end of a typed array gives
Undefined == -1

\* lut[index]
LutAt(table, index) ==
    IF index >= 0 /\ index < table.cube * table.cube * table.cube * 4
       THEN TableByte(index)
       ELSE Undefined

\* a Uint8ClampedArray element written with v: undefined becomes 0
ToByte(v) == IF v = Undefined THEN 0 ELSE v

\* the x with 2^x <= max / 255 < 2^(x + 1), for max >= 1: the binary
\* exponent of the double max / 255
LogScale(max) ==
    IF max >= 255
       THEN CHOOSE x \in 0..22 : 255 * 2^x <= max /\ max < 255 * 2^(x + 1)
       ELSE 0 - (CHOOSE j \in 1..8 : 255 <= max * 2^j /\ max * 2^j < 510)

\* the e with 2^(e - 1) < k <= 2^e, for k >= 1
CeilLog2(k) == CHOOSE e \in 0..30 : k <= 2^e /\ (e = 0 \/ 2^(e - 1) < k)

\* Math.floor(r * scale) with scale = max / 255, in IEEE-754 doubles as
\* JavaScript numbers are.  The quotient max / 255 is rounded to 53 bits:
\* with s = 52 - LogScale(max) its significand is (max * 2^s - m) / 255 for
\* the residue m of max * 2^s modulo 255 (2^8 = 1 modulo 255), rounded down
\* when m <= 127.  The product with r then lies r * m / (255 * 2^s) below
\* r * max / 255, and where that is an integer k the product rounds to a
\* double below k, whose floor is k - 1, as soon as the gap exceeds half
\* the spacing 2^(CeilLog2(k) - 53) of the doubles below k.
FloorProduct(r, max) ==
    IF max < 0 THEN (IF r = 0 THEN 0 ELSE -1)
    ELSE IF r = 0 \/ max = 0 THEN 0
    ELSE LET k == (r * max) \div 255 IN
         IF (r * max) % 255 # 0 THEN k
         ELSE LET x == LogScale(max)
                  m == (max * 2^((52 - x) % 8)) % 255
                  t == CeilLog2(k) - x - 2
              IN  IF /\ m # 0
                     /\ m <= 127
                     /\ r * m * 2^Max(0, 0 - t) > 255 * 2^Max(0, t)
                     THEN k - 1
                     ELSE k

\* Math.min(max, Math.floor(ch * scale)): the bucket of one channel
Bucket(ch, max) == Min(max, FloorProduct(ch, max))

\* index: the offset in the table of the quadruplet of the pixel's bucket
LutIndex(px, size) ==
    LET max == size - 1
        ri == Bucket(px[1], max)
        gi == Bucket(px[2], max)
        bi == Bucket(px[3], max)
    IN  (ri + gi * size + bi * size * size) * 4

\* one iteration of the loop of apply(): the pixel's bucket in the table
\* and the three bytes read there; alpha is not written
LutPixel(px, table, size) ==
    LET index == LutIndex(px, size)
    IN  <<ToByte(LutAt(table, index)),
          ToByte(LutAt(table, index + 1)),
          ToByte(LutAt(table, index + 2)),
          px[4]>>

\* an apply() that always goes through the table
NoTable_never(table, size) == FALSE

\* !this.lut || !this.size
NoTable(table, size) == ~table.loaded \/ size = 0

\* apply(imageData), as the buffer it leaves in imageData.data
LutApplyTo(buf, table, size) ==
    IF NoTable(table, size)
       THEN buf
       ELSE [i \in DOMAIN buf |-> LutPixel(buf[i], table, size)]

\* the pixel buffers apply() is called with: MaxDim pixels, pixel i the
\* first one with its colour channels rotated i - 1 places
LutChannels == {0, 85, 255}
LutAlphas == {0, 255}
LutBuffer(px, n) ==
    [i \in 1..n |-> <<px[((i - 1) % 3) + 1], px[(i % 3) + 1],
                      px[((i + 1) % 3) + 1], px[4]>>]
LutBuffers ==
    {LutBuffer(<<r, g, b, a>>, n) :
        r \in LutChannels, g \in LutChannels, b \in LutChannels,
        a \in LutAlphas, n \in {MaxDim}}

\* loadFromImage(url, size) up to img.src = url, for a URL whose image has
\* the given cube edge.  Two loads in flight for the same image and size
\* act on the engine alike and are kept as one.
LoadFromImage(cube, size) ==
    /\ Cardinality(lutLoads) < MaxLoads
    /\ lutLoads' = lutLoads \cup {[cube |-> cube, size |-> size]}
    /\ lastOp' = Op("lutLoad", 0, "loading")
    /\ UNCHANGED <<lut, lutSize>>
    /\ UNCHANGED <<camVars, videoVars, engineVars, canvasVars, encoding, galleryVars, shellVars>>

\* img.onload of a load in flight
LoadDone(load) ==
    /\ load \in lutLoads
    /\ lutLoads' = lutLoads \ {load}
    /\ lut' = [loaded |-> TRUE, cube |-> load.cube]
    /\ lutSize' = load.size
    /\ lastOp' = OpWith("lutLoaded", 0, "resolved", load)
    /\ UNCHANGED <<camVars, videoVars, engineVars, canvasVars, encoding, galleryVars, shellVars>>

\* an onerror that leaves the engine as it was
LutAfterError_kept == lut

\* the fields img.onerror writes
LutAfterError == NoLut
SizeAfterError == 0

\* img.onerror of a load in flight; lastOp.arg keeps the table the engine
\* held when the image failed
LoadError(load) ==
    /\ load \in lutLoads
    /\ lutLoads' = lutLoads \ {load}
    /\ lut' = LutAfterError
    /\ lutSize' = SizeAfterError
    /\ lastOp' = OpWith("lutLoadError", 0, "rejected",
                        [error |-> "Failed to load LUT", had |-> lut])
    /\ UNCHANGED <<camVars, videoVars, engineVars, canvasVars, encoding, galleryVars, shellVars>>

\* apply(imageData)
LutApply(buf) ==
    /\ lastOp' = OpWith("lutApply", 0, "returned",
                        [before |-> buf, after |-> LutApplyTo(buf, lut, lutSize)])
    /\ UNCHANGED lutVars
    /\ UNCHANGED <<camVars, videoVars, engineVars, canvasVars, encoding, galleryVars, shellVars>>

NextLut ==
    \/ \E cube \in LutCubes, size \in LutSizes : LoadFromImage(cube, size)
    \/ \E load \in lutLoads : LoadDone(load)
    \/ \E load \in lutLoads : LoadError(load)
    \/ \E buf \in LutBuffers : LutApply(buf)

\* the LUT engine on its own
SpecLut ==
    /\ InitWith({d \in Devices : d.width = MaxDim /\ d.height = MaxDim},
                {DefaultCanvas}, {0})
    /\ [][NextLut]_vars

\* size arguments at the ends of the range: a single bucket, and the
\* smallest size whose scale (size - 1) / 255, rounded to a double, gives
\* a product with 255 below size - 1
WideSizes == {1, 16326}

\* buffers of MaxDim pixels with only the red channel set, whose offsets
\* stay below 2^31 for every size of WideSizes
RedBuffers ==
    {[i \in 1..MaxDim |-> <<r, 0, 0, a>>] : r \in LutChannels, a \in LutAlphas}

NextLutWide ==
    \/ \E cube \in LutCubes, size \in WideSizes : LoadFromImage(cube, size)
    \/ \E load \in lutLoads : LoadDone(load)
    \/ \E load \in lutLoads : LoadError(load)
    \/ \E buf \in RedBuffers : LutApply(buf)

\* the LUT engine loaded with the sizes of WideSizes
SpecLutWide ==
    /\ InitWith({d \in Devices : d.width = MaxDim /\ d.height = MaxDim},
                {DefaultCanvas}, {0})
    /\ [][NextLutWide]_vars

(* ========================== service worker ============================ *)

\* STATIC_CACHE (service-worker.js 18-19)
STATIC_CACHE == "pro-camera-v1-static"

\* STATIC_ASSETS (service-worker.js 27-51), in the order of the list
STATIC_ASSETS ==
    << "./", "./index.html", "./manifest.json",
       "./css/base.css", "./css/camera.css", "./css/sliders.css",
       "./css/animations.css",
       "./js/app.js", "./js/camera.js", "./js/constraints.js",
       "./js/filters.js", "./js/lut-engine.js", "./js/capture.js",
       "./js/gallery.js", "./js/ui.js",
       "./assets/icons/icon-192.png", "./assets/icons/icon-512.png" >>

\* the entries of the list the source marks as best-effort
IconAssets == {"./assets/icons/icon-192.png", "./assets/icons/icon-512.png"}

\* what a deployment may lack: nothing, one icon, both icons, or the
\* manifest
MissingSets ==
    { {}, {"./assets/icons/icon-192.png"}, IconAssets, {"./manifest.json"} }

\* a cache left by an earlier version of the worker
OldCache == "pro-camera-v0-static"

\* the install event: caches.open(STATIC_CACHE) creates the cache and
\* cache.addAll(STATIC_ASSETS) issues one fetch per entry; waitUntil holds
\* the installation until addAll settles
SwInstall ==
    /\ swState = "parsed"
    /\ swState' = "installing"
    /\ cacheKeys' = {OldCache, STATIC_CACHE}
    /\ swPending' = {STATIC_ASSETS[i] : i \in DOMAIN STATIC_ASSETS}
    /\ UNCHANGED <<swCached, missing>>
    /\ lastOp' = Op("swInstall", 0, "installing")
    /\ UNCHANGED <<camVars, videoVars, engineVars, canvasVars, encoding,
                   galleryVars, lutVars, appVars>>

\* one fetch of addAll() settles.  A response that is not ok (the asset is
\* missing) rejects addAll(), which fails the installation, and nothing is
\* stored; when the last response has come, all of them are stored and the
\* installation is over.
SwFetchSettle(asset) ==
    /\ swState = "installing"
    /\ asset \in swPending
    /\ IF asset \in missing
          THEN /\ swState' = "redundant"
               /\ swPending' = {}
               /\ UNCHANGED swCached
               /\ lastOp' = OpWith("swFetchSettle", 0, "rejected", asset)
          ELSE /\ swPending' = swPending \ {asset}
               /\ IF swPending = {asset}
                     THEN /\ swState' = "installed"
                          /\ swCached' = {STATIC_ASSETS[i] : i \in DOMAIN STATIC_ASSETS}
                     ELSE UNCHANGED <<swState, swCached>>
               /\ lastOp' = Op("swFetchSettle", 0, "fetched")
    /\ UNCHANGED <<cacheKeys, missing>>
    /\ UNCHANGED <<camVars, videoVars, engineVars, canvasVars, encoding,
                   galleryVars, lutVars, appVars>>

\* the activate event, which skipWaiting() lets follow the installation at
\* once: every cache but STATIC_CACHE is deleted
SwActivate ==
    /\ swState = "installed"
    /\ swState' = "activated"
    /\ cacheKeys' = cacheKeys \cap {STATIC_CACHE}
    /\ UNCHANGED <<swPending, swCached, missing>>
    /\ lastOp' = Op("swActivate", 0, "activated")
    /\ UNCHANGED <<camVars, videoVars, engineVars, canvasVars, encoding,
                   galleryVars, lutVars, appVars>>

NextWorker ==
    \/ SwInstall
    \/ \E asset \in swPending : SwFetchSettle(asset)
    \/ SwActivate

\* the page and a worker not yet installed, on servers that lack some assets
InitDeployment ==
    /\ InitPage({d \in Devices : d.width = MaxDim /\ d.height = MaxDim},
                {DefaultCanvas}, {0})
    /\ InitWorker(MissingSets)

\* the installation of the service worker
SpecWorker == InitDeployment /\ [][NextWorker]_vars

(* ============================== app.js ================================= *)

\* The page's handlers call the controllers' methods one after the other;
\* each call is the controller's action, and the statements of app.js and
\* ui.js around them are the steps below.  lastOp tells which call of the
\* running handler was made last, task which handler it is.

\* the first call of the visibilitychange handler when the page was hidden
\* gone straight to the camera
HiddenFirst_cameraOnly == "stop"

\* the first call of the visibilitychange handler when the page was hidden
\* (app.js 115): filters.stop()
HiddenFirst == "feStop"

\* the call the running handler makes next, "none" when it has returned or
\* is suspended at an await
NextStep ==
    IF lastOp.op \in {"boot", "visible", "retry"} THEN "start"
    ELSE IF lastOp.op = "hidden" THEN HiddenFirst
    ELSE IF lastOp.op = "unload" THEN "feStop"
    ELSE IF lastOp.op = "feStop" THEN "stop"
    ELSE IF lastOp.op = "stop" /\ task = "unload" THEN "clear"
    ELSE IF lastOp.op = "clear" THEN "uiDestroy"
    ELSE IF lastOp.op = "startCamera" /\ lastOp.res = "resumed" THEN "resize"
    ELSE IF lastOp.op = "resize" THEN "feStart"
    ELSE IF lastOp.op = "encodeDone" /\ lastOp.res = "resolved" THEN "add"
    ELSE "none"

\* the start() calls whose promise has settled while startCamera() still
\* awaits it: their continuations are microtasks, which run before the next
\* task
Resumable == {c \in awaiting : Settled(c)}

\* no handler is running and no microtask is queued: the event loop takes
\* the next task
Idle == NextStep = "none" /\ Resumable = {}

\* a step of app.js or ui.js that calls startCamera(): the start() call it
\* is about to make will be awaited
CallsStartCamera(name) ==
    /\ NextCall <= MaxStarts
    /\ task' = name
    /\ awaiting' = awaiting \cup {NextCall}
    /\ lastOp' = Op(name, NextCall, "called")

\* the end of the DOMContentLoaded handler: startCamera() (app.js 135)
AppBoot ==
    /\ task = "load"
    /\ CallsStartCamera("boot")
    /\ UNCHANGED <<overlay, uiLive, hidden>>
    /\ UNCHANGED <<camVars, videoVars, engineVars, canvasVars, encoding,
                   galleryVars, lutVars, workerVars>>

\* visibilitychange with document.hidden false: startCamera() (app.js 118)
AppVisible ==
    /\ Idle
    /\ hidden
    /\ hidden' = FALSE
    /\ CallsStartCamera("visible")
    /\ UNCHANGED <<overlay, uiLive>>
    /\ UNCHANGED <<camVars, videoVars, engineVars, canvasVars, encoding,
                   galleryVars, lutVars, workerVars>>

\* a click on the retry button of the permission overlay, while the overlay
\* is shown and the UI's listeners are bound: ui.hidePermissionOverlay();
\* startCamera() (app.js 85-88)
AppRetry ==
    /\ Idle
    /\ task # "load"
    /\ uiLive
    /\ overlay
    /\ overlay' = FALSE
    /\ CallsStartCamera("retry")
    /\ UNCHANGED <<uiLive, hidden>>
    /\ UNCHANGED <<camVars, videoVars, engineVars, canvasVars, encoding,
                   galleryVars, lutVars, workerVars>>

\* visibilitychange with document.hidden true (app.js 113-116), up to its
\* first call
AppHidden ==
    /\ Idle
    /\ task # "load"
    /\ ~hidden
    /\ hidden' = TRUE
    /\ task' = "hidden"
    /\ lastOp' = Op("hidden", 0, "called")
    /\ UNCHANGED <<awaiting, overlay, uiLive>>
    /\ UNCHANGED <<camVars, videoVars, engineVars, canvasVars, encoding,
                   galleryVars, lutVars, workerVars>>

\* beforeunload (app.js 123-129), up to its first call
AppUnload ==
    /\ Idle
    /\ task # "load"
    /\ uiLive
    /\ task' = "unload"
    /\ lastOp' = Op("unload", 0, "called")
    /\ UNCHANGED <<awaiting, overlay, uiLive, hidden>>
    /\ UNCHANGED <<camVars, videoVars, engineVars, canvasVars, encoding,
                   galleryVars, lutVars, workerVars>>

\* ui.destroy() (ui.js 50-55), the last call of the beforeunload handler:
\* the listeners of the sliders, the shutter and the retry button are
\* removed
UiDestroy ==
    /\ NextStep = "uiDestroy"
    /\ uiLive' = FALSE
    /\ lastOp' = Op("uiDestroy", 0, "returned")
    /\ UNCHANGED <<task, awaiting, overlay, hidden>>
    /\ UNCHANGED <<camVars, videoVars, engineVars, canvasVars, encoding,
                   galleryVars, lutVars, workerVars>>

\* startCamera() resumes after await camera.start() for call c (app.js
\* 96-107): on to resize() and start() when the promise resolved, and into
\* the catch block, which shows the permission overlay, when it rejected
ResumeStartCamera(c) ==
    /\ NextStep = "none"
    /\ c \in Resumable
    /\ awaiting' = awaiting \ {c}
    /\ IF calls[c] = "resolved"
          THEN /\ lastOp' = Op("startCamera", c, "resumed")
               /\ UNCHANGED overlay
          ELSE /\ lastOp' = Op("startCamera", c, "caught")
               /\ overlay' = TRUE
    /\ UNCHANGED <<task, uiLive, hidden>>
    /\ UNCHANGED <<camVars, videoVars, engineVars, canvasVars, encoding,
                   galleryVars, lutVars, workerVars>>

\* the capture result onShutter hands to gallery.add() (app.js 76-77)
Shot == [blob |-> lastOp.arg.blob, width |-> lastOp.arg.width,
         height |-> lastOp.arg.height, timestamp |-> lastOp.arg.timestamp]

\* the calls the handlers make on the controllers, in their order
AppCalls ==
    \/ (NextStep = "start" /\ Start)
    \/ (NextStep = "feStop" /\ FeStop)
    \/ (NextStep = "stop" /\ Stop({}))
    \/ (NextStep = "clear" /\ Clear({}))
    \/ UiDestroy
    \/ \E c \in StreamIds : ResumeStartCamera(c)
    \/ (NextStep = "resize" /\ FeResize)
    \/ (NextStep = "feStart" /\ FeStart)
    \/ (NextStep = "add" /\ Add(Shot))

\* a click on the shutter while the UI's listeners are bound and no earlier
\* picture is being encoded: onShutter calls capture.capture() (app.js
\* 74-76)
AppShutter ==
    /\ Idle
    /\ task # "load"
    /\ uiLive
    /\ encoding = {}
    /\ minted < MaxShots
    /\ Capture

\* what the browser does between the page's handlers; the user denies the
\* camera or grants it, the stream shows its first frame, and the clock
\* stands still
HostTasks ==
    \/ \E c \in StreamIds : GumResolve(c)
    \/ \E c \in StreamIds : GumReject(c, "NotAllowedError")
    \/ LoadedMetadata
    \/ CanPlay(1)
    \/ \E id \in rafPending : RenderStep(id)
    \/ \E job \in encoding, ok \in BOOLEAN : EncodeDone(job, ok, 1)

NextApp ==
    \/ AppBoot
    \/ AppVisible
    \/ AppRetry
    \/ AppHidden
    \/ AppUnload
    \/ AppShutter
    \/ AppCalls
    \/ (Idle /\ HostTasks)

\* the page as app.js wires it, for the camera with the largest frames and
\* a canvas of the default size
SpecApp ==
    /\ InitWith({d \in Devices : d.width = MaxDim /\ d.height = MaxDim},
                {DefaultCanvas}, {0})
    /\ [][NextApp]_vars

(* ----------------------- claims on the camera session ------------------ *)

\* C2: in every reachable state of the session, whatever the interleaving of
\* start, stop, setExposure, setFocus and their asynchronous completions, a
\* video track handle is held if and only if the session is running.
C2_TrackIffRunning == (videoTrack # NoStream) <=> isRunning

\* C2 witness: the session became Ready although a stop() had interleaved
\* with the start, and a constraint application has since completed.
C2_Witness ==
    /\ isRunning
    /\ videoTrack # NoStream
    /\ interrupted # {}
    /\ lastOp.op = "applyDone"

\* C3: when a start() that was in flight during some stop() settles, the
\* session is not Ready and no acquired stream has a track still live.
C3_StopDiscardsInFlightStart ==
    [][\A c \in interrupted :
          (calls[c] \in {"gum", "wait"} /\ calls'[c] \in {"resolved", "rejected"})
             => (~isRunning' /\ \A s \in StreamIds :
                                  \A i \in DOMAIN tracks'[s] : tracks'[s][i] # "live")]_vars

\* C4: at most one acquired stream has live tracks, and a stream with live
\* tracks is the one the session holds.
C4_AtMostOneLiveStream ==
    /\ Cardinality({s \in StreamIds : Unreleased(s)}) <= 1
    /\ \A s \in StreamIds : Unreleased(s) => stream = s

\* C7: stop() never raises; when it has returned the session holds no stream
\* and no track and is not running, and stop() has been called on every
\* track of the stream it held, those after a throwing one included.
C7_StopNeverRaises ==
    lastOp.op = "stop" =>
        /\ lastOp.res = "returned"
        /\ stream = NoStream
        /\ videoTrack = NoStream
        /\ ~isRunning
        /\ lastOp.call # NoStream =>
              \A i \in DOMAIN tracks[lastOp.call] : tracks[lastOp.call][i] = "ended"

\* C7 witness: a stop() whose first track.stop() threw has returned, and the
\* track after it was stopped all the same.
C7_Witness ==
    /\ lastOp.op = "stop"
    /\ lastOp.call # NoStream
    /\ 1 \in lastOp.arg
    /\ Len(tracks[lastOp.call]) >= 2
    /\ tracks[lastOp.call][2] = "ended"

\* C8: when the stream request of a start() fails, that start() rejects with
\* the platform's error and the session is Idle: no stream, no track, not
\* running.
C8_FailedStartLeavesIdle ==
    lastOp.op = "gumReject" =>
        /\ calls[lastOp.call] = "rejected"
        /\ lastOp.res \in GumErrors
        /\ stream = NoStream
        /\ videoTrack = NoStream
        /\ ~isRunning

\* C9: the session is Ready only while the video sink has reported readable
\* dimensions for the stream bound to it.
C9_ReadyOnlyAfterSinkReady ==
    isRunning =>
        /\ srcObject # NoStream
        /\ srcObject = stream
        /\ readyState >= HAVE_METADATA

(* ----------------------- claims on capture and rendering --------------- *)

\* C1: the blob a capture resolves with is the encoding of the bitmap the
\* canvas held when capture() was invoked, whatever render steps, resizes or
\* filter changes ran before the encoder finished.
C1_BlobIsSurfaceAtInvocation ==
    (lastOp.op = "encodeDone" /\ lastOp.res = "resolved") =>
        lastOp.arg.blob = EncodeBitmap(lastOp.arg.shown, "image/jpeg", 92)

\* C1 witness: a capture of a drawn canvas has resolved after a render step
\* had written different pixels to the same canvas.
C1_Witness ==
    /\ lastOp.op = "encodeDone"
    /\ lastOp.res = "resolved"
    /\ lastOp.arg.shown.px # Blank(lastOp.arg.shown.w, lastOp.arg.shown.h)
    /\ lastOp.arg.shown.w = canvasW
    /\ lastOp.arg.shown.h = canvasH
    /\ surface # lastOp.arg.shown.px
    /\ surface # Blank(canvasW, canvasH)

\* C10: at most one render step is pending; exactly one, the one whose handle
\* the engine stores, while it is running and none while it is stopped; and
\* start() on a running engine and stop() on a stopped one change nothing.
C10_OneRenderStepPending ==
    /\ [](/\ Cardinality(rafPending) <= 1
          /\ running => (rafPending = {rafId} /\ rafId # 0)
          /\ ~running => (rafPending = {} /\ rafId = 0))
    /\ [][((lastOp'.op = "feStart" /\ running) \/ (lastOp'.op = "feStop" /\ ~running))
             => /\ lastOp'.res = "noop"
                /\ UNCHANGED <<engineVars, canvasVars, encoding, galleryVars,
                             lutVars, camVars, videoVars, shellVars>>]_vars

\* C10 witness: start() was called on an engine that was already running and
\* had executed a render step, and one step is pending.
C10_Witness ==
    /\ lastOp.op = "feStart"
    /\ lastOp.res = "noop"
    /\ running
    /\ rafId = 2
    /\ Cardinality(rafPending) = 1

\* C11: capture() on a canvas whose width or height is 0 rejects with the
\* not-ready error and starts no encoding; no encoding in flight is ever of
\* a canvas without pixels, so no blob comes of such a call.
C11_NotReadyRejects ==
    /\ [](\A job \in encoding : job.bitmap.w # 0 /\ job.bitmap.h # 0)
    /\ [][(lastOp'.op = "capture" /\ (canvasW = 0 \/ canvasH = 0))
             => /\ lastOp'.res = "rejected"
                /\ lastOp'.arg = "Canvas not ready for capture"
                /\ encoding' = encoding]_vars

\* C11 witness: capture() was rejected on a canvas with a width and no
\* height while the frame processor was running.
C11_Witness ==
    /\ lastOp.op = "capture"
    /\ lastOp.res = "rejected"
    /\ canvasW # 0
    /\ canvasH = 0
    /\ running

\* C12: capture() on a canvas with pixels starts one encoding; when the
\* encoder's callback runs, that encoding leaves the ones in flight and the
\* promise is settled by exactly one call: a rejection with the encoding
\* error when there is no blob, else a resolution with the blob, the canvas
\* size and the time.
C12_SettlesExactlyOnce ==
    /\ [](\A j1, j2 \in encoding : j1.id = j2.id => j1 = j2)
    /\ [][(lastOp'.op = "capture" /\ canvasW # 0 /\ canvasH # 0)
             => /\ lastOp'.res = "encoding"
                /\ \E job \in encoding' :
                      /\ job.id = lastOp'.call
                      /\ job \notin encoding
                      /\ encoding' = encoding \cup {job}]_vars
    /\ [][lastOp'.op = "encodeDone"
             => /\ \E job \in encoding :
                      job.id = lastOp'.call /\ encoding' = encoding \ {job}
                /\ Len(lastOp'.arg.calls) = 1
                /\ lastOp'.res \in {"resolved", "rejected"}
                /\ lastOp'.res = "rejected"
                      => /\ lastOp'.arg.calls = <<"reject">>
                         /\ lastOp'.arg.error = "Failed to capture image"
                /\ lastOp'.res = "resolved"
                      => /\ lastOp'.arg.calls = <<"resolve">>
                         /\ lastOp'.arg.blob # NoBlob
                         /\ lastOp'.arg.blob.type = "image/jpeg"
                         /\ lastOp'.arg.width = canvasW
                         /\ lastOp'.arg.height = canvasH
                         /\ lastOp'.arg.timestamp \in Clock]_vars

\* C12 witness: an encoding has failed and the promise was rejected while
\* the frame processor kept drawing.
C12_Witness ==
    /\ lastOp.op = "encodeDone"
    /\ lastOp.res = "rejected"
    /\ lastOp.arg.calls = <<"reject">>
    /\ running
    /\ surface # Blank(canvasW, canvasH)

\* C17: setExposure(ev) calls applyConstraints only when the session is
\* Ready, the track reports an exposure-compensation range and the clamp of
\* ev into that range differs from the current setting; the one call it
\* then makes carries exactly that clamp; otherwise no call is made.
C17_ExposureConstraintOnlyWhenNeeded ==
    [][lastOp'.op = "setExposure" =>
          IF lastOp'.res = "applying"
             THEN LET clamped == IF lastOp'.arg < ExposureRange.min
                                    THEN ExposureRange.min
                                 ELSE IF lastOp'.arg > ExposureRange.max
                                    THEN ExposureRange.max
                                 ELSE lastOp'.arg
                  IN  /\ isRunning
                      /\ videoTrack # NoStream
                      /\ device.getCapabilities
                      /\ device.exposure
                      /\ expSetting # clamped
                      /\ pendingApply' = pendingApply \cup
                            {[field |-> "exposureCompensation", value |-> clamped]}
             ELSE pendingApply' = pendingApply]_vars

\* C17 witness: setExposure(10) on a Ready session has issued a constraint
\* change with the top of the range.
C17_Witness ==
    /\ lastOp.op = "setExposure"
    /\ lastOp.res = "applying"
    /\ lastOp.arg = 10
    /\ isRunning
    /\ [field |-> "exposureCompensation", value |-> ExposureRange.max] \in pendingApply

\* C18: no call of setExposure or setFocus throws or rejects, and no
\* failing constraint application reaches the caller.
C18_ControlsNeverReject ==
    lastOp.op \in {"setExposure", "setFocus", "applyDone"} =>
        lastOp.res \in {"noop", "applying", "applied", "swallowed"}

\* C19: a stop() called while a start() is in flight returns without
\* raising, and a start() that was in flight during a stop() rejects, if it
\* does, only when its stream request fails, with the platform's error.
C19_CancellationRaisesNothing ==
    /\ []((lastOp.op = "stop" /\ \E c \in StreamIds : InFlight(c))
            => lastOp.res = "returned")
    /\ [][\A c \in interrupted :
             (calls[c] # "rejected" /\ calls'[c] = "rejected")
                => /\ lastOp'.op = "gumReject"
                   /\ lastOp'.call = c
                   /\ lastOp'.res \in GumErrors]_vars

\* C19 witness: stop() has torn down the stream of a start() that was
\* waiting for the video element, and that start() is still in flight.
C19_Witness ==
    /\ lastOp.op = "stop"
    /\ lastOp.res = "returned"
    /\ lastOp.call # NoStream
    /\ calls[lastOp.call] = "wait"
    /\ lastOp.call \in interrupted

\* the pixels a render step has drawn before the filter pass
PreFilter ==
    IF exposureEV # 0
       THEN Overlay(DrawImage(canvasW, canvasH), exposureEV)
       ELSE DrawImage(canvasW, canvasH)

\* a render step has just drawn a frame with the grayscale filter active
DrewMono ==
    /\ lastOp.op = "render"
    /\ running
    /\ activeFilter = "mono"
    /\ readyState >= HAVE_CURRENT_DATA
    /\ canvasW # 0
    /\ canvasH # 0

\* a render step has just drawn a frame with the warm filter active
DrewWarm ==
    /\ lastOp.op = "render"
    /\ running
    /\ activeFilter = "warm"
    /\ readyState >= HAVE_CURRENT_DATA
    /\ canvasW # 0
    /\ canvasH # 0

\* C21: after a render step with the warm filter, every pixel's blue is at
\* most, and its red at least, its pre-filter value (red at most 255), and
\* its green and alpha are the pre-filter ones.
C21_WarmShiftsRedUpBlueDown ==
    DrewWarm =>
        \A k \in DOMAIN surface :
            /\ surface[k][3] <= PreFilter[k][3]
            /\ surface[k][1] >= PreFilter[k][1]
            /\ surface[k][1] <= 255
            /\ surface[k][2] = PreFilter[k][2]
            /\ surface[k][4] = PreFilter[k][4]

\* C21 witness: a warm render step has raised the red and lowered the blue
\* of some pixel.
C21_Witness ==
    /\ DrewWarm
    /\ \E k \in DOMAIN surface :
          /\ surface[k][1] > PreFilter[k][1]
          /\ surface[k][3] < PreFilter[k][3]

\* round(x) for x = num / 10000 >= 0: the nearest integer, halves upwards
RoundHalfUp(num) == (num + 5000) \div 10000

\* C20 as stated: after a render step with the grayscale filter, every
\* pixel has R = G = B = round(0.2126 R0 + 0.7152 G0 + 0.0722 B0) of its
\* pre-filter channels and its alpha unchanged.
C20_GrayscaleRounds ==
    DrewMono =>
        \A k \in DOMAIN surface :
            LET p == PreFilter[k]
                l == RoundHalfUp(2126 * p[1] + 7152 * p[2] + 722 * p[3])
            IN  surface[k] = << l, l, l, p[4] >>

\* C20 amended: after a render step with the grayscale filter, every pixel
\* has R = G = B = an integer nearest to 0.2126 R0 + 0.7152 G0 + 0.0722 B0
\* (either one when that value lies halfway between two integers) and its
\* alpha unchanged; a pixel that was gray is unchanged.
C20_GrayscaleNearest ==
    DrewMono =>
        \A k \in DOMAIN surface :
            LET p == PreFilter[k]
                num == 2126 * p[1] + 7152 * p[2] + 722 * p[3]
                l == surface[k][1]
            IN  /\ surface[k] = << l, l, l, p[4] >>
                /\ 10000 * l - num <= 5000
                /\ num - 10000 * l <= 5000
                /\ (p[1] = p[2] /\ p[2] = p[3]) => surface[k] = p

\* C20 witness: a render step with the grayscale filter has drawn a frame
\* holding a pixel of halfway luma, and the surface is gray.
C20_Witness ==
    /\ DrewMono
    /\ exposureEV = 0
    /\ PreFilter[1] = << 0, 14, 76, 255 >>
    /\ surface[1][1] = surface[1][2]
    /\ surface[1][1] = 15

\* C16: the exposure the frame processor stores is never below -2 or above
\* 2, and after setExposure(ev) it is ev when ev lies in that range, -2
\* when ev is below it and 2 when ev is above it.
C16_ExposureClamped ==
    /\ exposureEV >= -2
    /\ exposureEV <= 2
    /\ lastOp.op = "feSetExposure" =>
          exposureEV = (IF lastOp.arg < -2 THEN -2
                        ELSE IF lastOp.arg > 2 THEN 2
                        ELSE lastOp.arg)

\* C16 witness: setExposure(-100) was called on a running frame processor
\* and -2 is stored.
C16_Witness ==
    /\ lastOp.op = "feSetExposure"
    /\ lastOp.arg = -100
    /\ exposureEV = -2
    /\ running

\* C28: the width and height a capture resolves with are those of the
\* bitmap that was encoded into its blob.
C28_ResultSizeIsEncodedSize ==
    (lastOp.op = "encodeDone" /\ lastOp.res = "resolved") =>
        /\ lastOp.arg.width = lastOp.arg.blob.w
        /\ lastOp.arg.height = lastOp.arg.blob.h

(* ----------------------- claims on the LUT engine ---------------------- *)

\* C13: whenever the engine holds no table, apply() leaves every byte of
\* the buffer it is given as it was.
C13_ApplyIdentityWithoutTable ==
    (lastOp.op = "lutApply" /\ ~lut.loaded) =>
        lastOp.arg.after = lastOp.arg.before

\* C13 witness: apply() ran without a table on a buffer of coloured,
\* half-transparent pixels while a load was still in flight.
C13_Witness ==
    /\ lastOp.op = "lutApply"
    /\ ~lut.loaded
    /\ lutLoads # {}
    /\ lastOp.arg.before[1] = <<85, 255, 0, 0>>

\* the bucket of a channel value in a cube of edge n, in exact arithmetic
BucketExact(ch, n) == Min(n - 1, (ch * (n - 1)) \div 255)

\* C14: with a table of size N loaded (a buffer of N * N * N * 4 bytes),
\* apply() sets R, G, B of every pixel to the three table bytes at offset
\* (rIdx + gIdx * N + bIdx * N * N) * 4, each index being
\* min(N - 1, floor(channel * (N - 1) / 255)), and leaves alpha as it was.
C14_ApplyReadsComputedBucket ==
    (lastOp.op = "lutApply" /\ lut.loaded /\ lutSize # 0 /\ lut.cube = lutSize) =>
        \A i \in DOMAIN lastOp.arg.before :
            LET px == lastOp.arg.before[i]
                offset == (BucketExact(px[1], lutSize)
                           + BucketExact(px[2], lutSize) * lutSize
                           + BucketExact(px[3], lutSize) * lutSize * lutSize) * 4
            IN  lastOp.arg.after[i] =
                    <<TableByte(offset), TableByte(offset + 1),
                      TableByte(offset + 2), px[4]>>

\* C15: a load whose image fails rejects and leaves the engine without
\* table and with size 0, whatever it held; from then on apply() is the
\* identity, and a table appears again only when a load succeeds.
C15_FailedLoadFallsBackToIdentity ==
    /\ [](lastOp.op = "lutLoadError" =>
             /\ lastOp.res = "rejected"
             /\ lastOp.arg.error = "Failed to load LUT"
             /\ lut = NoLut
             /\ lutSize = 0)
    /\ [][(lut = NoLut /\ lastOp'.op = "lutApply")
             => (lut' = NoLut /\ lastOp'.arg.after = lastOp'.arg.before)]_vars
    /\ [][(lut = NoLut /\ lut' # NoLut) => lastOp'.op = "lutLoaded"]_vars

\* C15 witness: the image of a load failed while the engine held a table
\* of non-zero size.
C15_Witness ==
    /\ lastOp.op = "lutLoadError"
    /\ lastOp.arg.had.loaded
    /\ lastOp.arg.had.cube = 148
    /\ lut = NoLut

\* C27: the engine's size is 0 exactly when it holds no table buffer.
C27_SizeZeroIffNoTable == (lutSize = 0) <=> (lut = NoLut)

\* an apply() that went through a table of size N >= 1
AppliedTable == lastOp.op = "lutApply" /\ lut.loaded /\ lutSize >= 1

\* C31: for a table of size N >= 1, every channel value 0..255 has a bucket
\* in 0..N-1, 0 has bucket 0 and 255 has bucket N-1, and the offset apply()
\* computes for every pixel satisfies 0 <= offset and
\* offset + 3 < N * N * N * 4, the specified length of the table.  The
\* offset is a multiple of 4, so the upper bound is offset / 4 < N * N * N,
\* written (offset / 4) \div (N * N) < N to stay within the integers of
\* the checker.
C31_OffsetWithinTable ==
    AppliedTable =>
        /\ \A ch \in 0..255 :
               /\ Bucket(ch, lutSize - 1) >= 0
               /\ Bucket(ch, lutSize - 1) <= lutSize - 1
        /\ \A i \in DOMAIN lastOp.arg.before :
               LET offset == LutIndex(lastOp.arg.before[i], lutSize)
               IN  /\ 0 <= offset
                   /\ offset % 4 = 0
                   /\ (offset \div 4) \div (lutSize * lutSize) < lutSize
        /\ Bucket(0, lutSize - 1) = 0
        /\ Bucket(255, lutSize - 1) = lutSize - 1

(* ----------------------- claims on the gallery ------------------------- *)

\* C5: when clear() has returned, the gallery has no entry and no object URL
\* add() ever returned is still resolvable.
C5_ClearReleasesEverything ==
    lastOp.op = "clear" =>
        /\ lastOp.res = "returned"
        /\ items = <<>>
        /\ \A url \in 1..minted : url \notin blobUrls

\* C5 witness: clear() has returned on a gallery that held two entries.
C5_Witness ==
    /\ lastOp.op = "clear"
    /\ lastOp.call >= 2
    /\ Len(lastOp.arg.called) >= 2
    /\ minted >= 2

\* C6: every stored entry's URL is resolvable, and every resolvable URL is
\* the URL of exactly one stored entry.
C6_HandlesMatchEntries ==
    /\ \A i \in DOMAIN items : items[i].url \in blobUrls
    /\ \A url \in blobUrls :
          Cardinality({i \in DOMAIN items : items[i].url = url}) = 1

\* C6 witness: an entry was added after a clear() of a gallery with entries,
\* and the gallery has been read since.
C6_Witness ==
    /\ lastOp.op \in {"getAll", "getLatest"}
    /\ Len(items) >= 1
    /\ items[1].url >= 2
    /\ blobUrls # {}

\* C23: clear() never raises: it calls revokeObjectURL once for every entry,
\* in order, whichever of the calls throw, and leaves no entry; on an empty
\* gallery, and so when it runs straight after another clear(), it makes no
\* call and changes nothing.
C23_ClearNeverRaises ==
    [][lastOp'.op = "clear" =>
          /\ lastOp'.res = "returned"
          /\ items' = <<>>
          /\ lastOp'.arg.called = [i \in 1..Len(items) |-> items[i].url]
          /\ items = <<>> => UNCHANGED galleryVars
          /\ lastOp.op = "clear" =>
                /\ lastOp'.arg.called = <<>>
                /\ UNCHANGED galleryVars]_vars

\* C23 witness: clear() has run on two entries with the first release
\* throwing, and both releases were attempted.
C23_Witness ==
    /\ lastOp.op = "clear"
    /\ 1 \in lastOp.arg.threw
    /\ Len(lastOp.arg.called) = 2
    /\ items = <<>>
    /\ blobUrls = {}

\* the largest URL among the stored entries: the entry added last
LatestUrl == CHOOSE u \in {items[i].url : i \in DOMAIN items} :
                \A i \in DOMAIN items : items[i].url <= u

\* C24: getAll() and getLatest() leave the gallery as it was.  getAll()
\* returns the stored entries, oldest first, and what its caller then does
\* to the returned array leaves the gallery as it was; getLatest() returns
\* the stored entry that was added last, or null for an empty gallery.
C24_ReadsAreSnapshots ==
    [][/\ lastOp'.op \in {"getAll", "getLatest", "snapshotPop"} =>
             UNCHANGED <<items, minted, blobUrls>>
       /\ lastOp'.op = "getAll" =>
             /\ lastOp'.arg = items
             /\ snapshot'.list = items
             /\ \A i, j \in DOMAIN items : i < j => items[i].url < items[j].url
       /\ lastOp'.op = "getLatest" =>
             IF items = <<>>
                THEN lastOp'.arg = "null"
                ELSE /\ lastOp'.arg \in {items[i] : i \in DOMAIN items}
                     /\ lastOp'.arg.url = LatestUrl]_vars

\* C24 witness: after a clear() and two more add() calls, the caller of
\* getAll() has removed an element from the array it got and getLatest()
\* has then returned the newest entry.
C24_Witness ==
    /\ lastOp.op = "getLatest"
    /\ Len(items) = 2
    /\ items[1].url >= 2
    /\ snapshot.taken
    /\ Len(snapshot.list) < Len(items)
    /\ lastOp.arg = items[2]

(* ----------------------- claims on the service worker ------------------ *)

\* C25: on a server that has every static asset but some of the icons, the
\* installation of the service worker does not fail.
C25_InstallSurvivesMissingIcons ==
    (missing # {} /\ missing \subseteq IconAssets) => swState # "redundant"

(* ----------------------- claims on the render loop --------------------- *)

\* C26: a render step that runs while the engine is running, whether it
\* draws, skips the drawing or throws while drawing, leaves the engine
\* running with exactly one step pending: the successor it requested, whose
\* handle the engine stores.
C26_StepReschedulesFirst ==
    [][(lastOp'.op \in {"render", "renderThrow"} /\ running) =>
          /\ running'
          /\ Cardinality(rafPending') = 1
          /\ rafPending' = {rafId'}
          /\ rafId' # 0
          /\ rafPending' \cap rafPending = {}]_vars

\* C26 witness: a render step has thrown in its filter pass, with the frame
\* drawn and not filtered, and its successor is pending.
C26_Witness ==
    /\ lastOp.op = "renderThrow"
    /\ lastOp.arg = "filter"
    /\ running
    /\ Cardinality(rafPending) = 1
    /\ rafId \in rafPending
    /\ surface = PreFilter

(* ----------------------- claims on the page ---------------------------- *)

\* the current frame of the video at its intrinsic size
SourceFrame == [k \in 1..(videoWidth * videoHeight) |-> FramePixel(frame, k)]

\* a render step of the running loop has just run on a started session,
\* with exposure 0 and the identity filter
IdentityStep ==
    /\ lastOp.op = "render"
    /\ running
    /\ isRunning
    /\ exposureEV = 0
    /\ activeFilter = "none"

\* the canvas has the size and the pixels of the current source frame
ShowsSourceFrame ==
    /\ canvasW = videoWidth
    /\ canvasH = videoHeight
    /\ surface = SourceFrame

\* C22 as stated: once startCamera() has started the session, resized the
\* canvas and started the frame processor, a render step with exposure 0
\* and the identity filter leaves the canvas pixel-identical to the current
\* source frame.
C22_IdentityStepShowsFrame == IdentityStep => ShowsSourceFrame

\* C22 amended: the same for a render step that runs when the video has a
\* current frame (readyState >= 2); a step that runs before that skips the
\* draw and leaves the canvas as it was.
C22_IdentityStepShowsFrameOnceReadable ==
    (IdentityStep /\ readyState >= HAVE_CURRENT_DATA) => ShowsSourceFrame

\* C22 witness: such a step has drawn a frame on a canvas that resize() gave
\* the size of the video.
C22_Witness ==
    /\ IdentityStep
    /\ readyState >= HAVE_CURRENT_DATA
    /\ frame # 0
    /\ canvasH = MaxDim
    /\ <<canvasW, canvasH>> # DefaultCanvas
    /\ surface = SourceFrame

\* C29: whenever the frame processor is running, the camera session is
\* ready.
C29_RunningImpliesReady == running => isRunning

\* C29 witness: the page was hidden and shown again, the second start() has
\* completed and the render loop runs on the ready session.
C29_Witness ==
    /\ running
    /\ isRunning
    /\ calls[1] = "resolved"
    /\ calls[2] = "resolved"
    /\ stream = 2
    /\ lastOp.op = "render"

\* C30: once the beforeunload handler has run, the blob URL store resolves
\* no URL the gallery made.
C30_NoHandleAfterTeardown == ~uiLive => blobUrls = {}

====
